---- MODULE Spec2Model ----
(* State-machine model of src/legal_team.py: one Streamlit session of the    *)
(* legal-team page.  Every user interaction re-runs the script top to bottom; *)
(* each action below is one interaction followed by the whole script run.     *)
EXTENDS Integers, Sequences, FiniteSets, TLC

\* ------------------------------------------------------------------ bounds
NumDocs == 2          \* distinct PDF byte contents the user can upload

\* ------------------------------------------------------------------ inputs
Names == {"A.pdf", "B.pdf"}
Docs == 1..NumDocs
NoFile == [name |-> "", content |-> 0]
Files == [name : Names, content : Docs]

AnalysisTypes ==
  {"Contract Review", "Legal Research", "Risk Assessment", "Compliance Check", "Custom Query"}

CustomTexts == {"", "Is clause 4 enforceable?"}

Replies == {"", "text"}

IngestOutcomes == {"ok", "fail_write", "fail_drop", "fail_read", "fail_store"}

\* ------------------------------------------------------------ session state
VARIABLES
  knowledge_base,   \* st.session_state.knowledge_base
  processed_files,  \* st.session_state.processed_files
  law,              \* contents of the persistent Chroma collection "law"
  api_key,          \* st.secrets has GOOGLE_API_KEY (fixed by the deployment)
  environ_key,      \* os.environ has GOOGLE_API_KEY
  uploaded_file,    \* file held by the uploader widget
  analysis_type,    \* selectbox value
  custom_text,      \* text_area value
  last_attempt,     \* how the session's most recent ingestion attempt ended
  failed_upload,    \* the file in the uploader had a failed ingestion attempt
  last_run,         \* what the most recent script run did
  prev_run          \* digest of the run before it

vars == <<knowledge_base, processed_files, law, api_key, environ_key, uploaded_file,
          analysis_type, custom_text, last_attempt, failed_upload, last_run, prev_run>>

\* A knowledge-base object is known by the document it was built from and by
\* whether it is the object of the session's most recent ingestion attempt.
None == [doc |-> 0, latest |-> FALSE]

\* The collection is known by how far it was filled, the document whose chunks
\* it holds, and whether they were stored through the session's current handle.
EmptyLaw == [state |-> "empty", doc |-> 0, own |-> FALSE]
\* a document stored in the collection before this session began
StaleLaw == [state |-> "full", doc |-> 0, own |-> FALSE]

\* ------------------------------------------------------------ pure helpers
StrTruthy_Always(s) == TRUE

\* Python truthiness of a str
StrTruthy(s) == s # ""

KbTruthy_Always(kb) == TRUE

\* Python truthiness of st.session_state.knowledge_base (None or an object)
KbTruthy(kb) == kb # None

predefined_queries ==
  [t \in AnalysisTypes \ {"Custom Query"} |->
     CASE t = "Contract Review" ->
            "Analyze this contract using the knowledge base. Identify key terms, obligations, and risks."
       [] t = "Legal Research" ->
            "Find relevant legal cases and precedents using the knowledge base."
       [] t = "Risk Assessment" ->
            "Identify potential legal risks in the document and cite specific sections."
       [] t = "Compliance Check" ->
            "Evaluate this document for compliance with legal regulations and highlight any concerns."]

\* query selection, lines 166-184
SelectQuery(type, text) ==
  IF type = "Custom Query" THEN text ELSE predefined_queries[type]

ContentOr_NoFallback(content, fallback) == content

\* x.content if x.content else fallback
ContentOr(content, fallback) == IF StrTruthy(content) THEN content ELSE fallback

\* knowledge_base.load(recreate=True, upsert=True) of document doc into coll
Load(coll, doc, o) ==
  CASE o = "fail_drop"  -> [coll EXCEPT !.own = FALSE]
    [] o = "fail_read"  -> EmptyLaw
    [] o = "fail_store" -> [state |-> "partial", doc |-> doc, own |-> TRUE]
    [] OTHER            -> [state |-> "full", doc |-> doc, own |-> TRUE]

\* the object kb once a later ingestion attempt has been made
Older(kb) == [kb EXCEPT !.latest = FALSE]

NoIngest(kb, pf, coll) ==
  [kb |-> kb, pf |-> pf, law |-> coll, ingest |-> "none", temp_written |-> FALSE,
   kb_created |-> FALSE, load_called |-> FALSE, recreated |-> FALSE,
   error |-> FALSE, success |-> FALSE]

NeedsIngest_NoNameCheck(file, pf) == file # NoFile

\* the name check that guards ingestion, lines 61-62
NeedsIngest(file, pf) == file # NoFile /\ file.name \notin pf

UploadBlock_AssignAfterLoad(file, kb, pf, coll, o) ==
  IF ~NeedsIngest(file, pf) THEN NoIngest(kb, pf, coll)
  ELSE IF o = "fail_write"
  THEN [NoIngest(Older(kb), pf, coll) EXCEPT !.ingest = o, !.error = TRUE]
  ELSE LET new == [doc |-> file.content, latest |-> TRUE]
       IN [kb |-> IF o = "ok" THEN new ELSE Older(kb),
           pf |-> IF o = "ok" THEN pf \cup {file.name} ELSE pf,
           law |-> Load(coll, new.doc, o),
           ingest |-> o,
           temp_written |-> TRUE,
           kb_created |-> TRUE,
           load_called |-> TRUE,
           recreated |-> (o # "fail_drop"),
           error |-> (o # "ok"),
           success |-> (o = "ok")]

\* document upload block, lines 61-82
UploadBlock(file, kb, pf, coll, o) ==
  IF ~NeedsIngest(file, pf) THEN NoIngest(kb, pf, coll)
  ELSE IF o = "fail_write"
  THEN [NoIngest(Older(kb), pf, coll) EXCEPT !.ingest = o, !.error = TRUE]
  ELSE LET new == [doc |-> file.content, latest |-> TRUE]
       IN [kb |-> new,
           pf |-> IF o = "ok" THEN pf \cup {file.name} ELSE pf,
           law |-> Load(coll, new.doc, o),
           ingest |-> o,
           temp_written |-> TRUE,
           kb_created |-> TRUE,
           load_called |-> TRUE,
           recreated |-> (o # "fail_drop"),
           error |-> (o # "ok"),
           success |-> (o = "ok")]

Call(agent, prompt) == [agent |-> agent, prompt |-> prompt]

\* what an agent's run returns, as text: a worker's reply is only ever pasted
\* into the team lead's prompt, so it is carried as a symbol; the content of a
\* team-lead reply is tested for emptiness, so it is a string.
ResponseOf(agent) == "<response of " \o agent \o ">"

\* get_team_response, lines 143-155: the four calls it makes, in order
get_team_response(query) ==
  LET research_response == ResponseOf("LegalAdvisor")
      contract_response == ResponseOf("ContractAnalyst")
      strategy_response == ResponseOf("LegalStrategist")
  IN << Call("LegalAdvisor", <<query>>),
        Call("ContractAnalyst", <<query>>),
        Call("LegalStrategist", <<query>>),
        Call("teamlead", <<"Summarize and integrate the following insights:",
                           "Legal Researcher:", research_response,
                           "Contract Analyst:", contract_response,
                           "Legal Strategist:", strategy_response>>) >>

\* the calls of one Analyze action, lines 191-206
AnalyzeCalls(query, outs) ==
  get_team_response(query) \o
  << Call("teamlead", <<"Summarize the key legal points from this analysis:", outs[4]>>),
     Call("teamlead", <<"Provide legal recommendations based on this analysis:", outs[4]>>) >>

\* the three tab bodies, lines 197, 202, 207
AnalyzeTabs(outs) ==
  << ContentOr(outs[4], "No response generated."),
     ContentOr(outs[5], "No summary generated."),
     ContentOr(outs[6], "No recommendations generated.") >>

NoPanel ==
  [panel |-> FALSE, agents_created |-> FALSE, query |-> "", pressed |-> FALSE,
   warning |-> FALSE, calls |-> <<>>, tabs |-> <<>>, crashed |-> FALSE]

\* agent initialization and analysis panel, lines 86-207.
\* fail_at = 0: no call raises; fail_at = k: the k-th agent call raises and the
\* exception leaves the script.
AnalysisPanel(kb, type, text, button, outs, fail_at) ==
  IF ~KbTruthy(kb) THEN NoPanel
  ELSE LET query == SelectQuery(type, text)
           shown == [NoPanel EXCEPT !.panel = TRUE, !.agents_created = TRUE,
                                    !.query = query, !.pressed = button]
       IN IF ~button THEN shown
          ELSE IF ~StrTruthy(query) THEN [shown EXCEPT !.warning = TRUE]
          ELSE IF fail_at = 0
          THEN [shown EXCEPT !.calls = AnalyzeCalls(query, outs), !.tabs = AnalyzeTabs(outs)]
          ELSE [shown EXCEPT !.calls = SubSeq(AnalyzeCalls(query, outs), 1, fail_at),
                             !.tabs = SubSeq(AnalyzeTabs(outs), 1,
                                             IF fail_at <= 4 THEN 0 ELSE fail_at - 4),
                             !.crashed = TRUE]

\* ------------------------------------------------------------ the script
\* The embedding service rejects every request made without a key.
AllowedOutcomes(key) == IF key THEN IngestOutcomes ELSE IngestOutcomes \ {"ok"}

\* The model service as the session meets it: "answering", every authorised
\* call returns non-empty text; "unreliable", any call may raise and any reply
\* may be empty.  Without a key the first agent call raises either way.
Services == {"answering", "unreliable"}

\* fail_at = 0: no call raises; fail_at = k: the k-th agent call raises
AllowedFailures(service, key) ==
  IF ~key THEN {1} ELSE IF service = "answering" THEN {0} ELSE 0..6

\* One run of the whole script (lines 15-207) on session s with the widget
\* values w; secret is what st.secrets holds, and o, outs and fail_at are what
\* the storage and embedding services and the model service answer in this run.
RunScript(s, w, secret, o, outs, fail_at) ==
  LET key   == s.environ_key \/ secret
      up    == UploadBlock(w.file, s.knowledge_base, s.processed_files, s.law, o)
      panel == AnalysisPanel(up.kb, w.type, w.text, w.button, outs, fail_at)
      tried == up.ingest # "none"
  IN [knowledge_base  |-> up.kb,
      processed_files |-> up.pf,
      law             |-> up.law,
      environ_key     |-> key,
      last_attempt    |-> IF tried THEN o ELSE s.last_attempt,
      failed_upload   |-> IF tried THEN up.ingest # "ok" ELSE w.failed,
      custom_text     |-> IF panel.panel /\ w.type = "Custom Query" THEN w.text ELSE "",
      last_run        |->
        [key_error |-> ~secret,
         retry |-> w.failed,
         kb_was_none |-> (s.knowledge_base = None),
         was_processed |-> (w.file.name \in s.processed_files),
         kb_same |-> ~up.kb_created,
         pf_same |-> (up.pf = s.processed_files),
         law_same |-> ~up.recreated,
         ingest |-> up.ingest, temp_written |-> up.temp_written,
         kb_created |-> up.kb_created, load_called |-> up.load_called,
         ingest_error |-> up.error,
         panel |-> panel.panel, agents_created |-> panel.agents_created,
         query |-> panel.query, pressed |-> panel.pressed, warning |-> panel.warning,
         calls |-> panel.calls, tabs |-> panel.tabs, crashed |-> panel.crashed]]

NoDigest == [analyze |-> FALSE, was_processed |-> FALSE, quiet |-> TRUE]

\* the run was an Analyze whose six calls all returned
Completed(r) == r.pressed /\ Len(r.calls) = 6 /\ ~r.crashed

\* What is remembered of run r while the run after it, cur, is the latest:
\* only a completed Analyze directly followed by another one is kept.  No
\* widget changes between the two, so they have the same file and query.
Digest(r, cur) ==
  IF ~(Completed(r) /\ Completed(cur)) THEN NoDigest
  ELSE [analyze |-> TRUE, was_processed |-> r.was_processed,
        quiet |-> (r.ingest = "none" /\ r.kb_same /\ r.pf_same)]

Session ==
  [knowledge_base |-> knowledge_base, processed_files |-> processed_files, law |-> law,
   environ_key |-> environ_key, last_attempt |-> last_attempt]

NoReplies == [i \in 4..6 |-> ""]

\* the team lead's replies in a run whose fail_at-th call raises: only the
\* calls before it return anything
RepliesUpTo(fail_at) ==
  {outs \in [4..6 -> Replies] : \A i \in 4..6 : (fail_at # 0 /\ i >= fail_at) => outs[i] = ""}

AllowedReplies(service, fail_at) ==
  {outs \in RepliesUpTo(fail_at) :
     service = "answering" => \A i \in 4..6 : (fail_at = 0 \/ i < fail_at) => outs[i] # ""}

\* A user interaction that leaves the widgets at w, and the script run it
\* causes, with the model service behaving as `service`.
Interact(w, service) ==
  /\ api_key' = api_key
  /\ \E o \in IF NeedsIngest(w.file, processed_files)
                THEN AllowedOutcomes(environ_key \/ api_key) ELSE {"none"} :
        LET runs == w.button /\ StrTruthy(SelectQuery(w.type, w.text))
                      /\ KbTruthy(UploadBlock(w.file, knowledge_base, processed_files, law, o).kb)
        IN \E fail_at \in IF runs THEN AllowedFailures(service, environ_key \/ api_key) ELSE {0} :
            \E outs \in IF runs THEN AllowedReplies(service, fail_at) ELSE {NoReplies} :
              LET n == RunScript(Session, w, api_key, o, outs, fail_at)
              IN /\ knowledge_base' = n.knowledge_base
                 /\ processed_files' = n.processed_files
                 /\ law' = n.law
                 /\ environ_key' = n.environ_key
                 /\ last_attempt' = n.last_attempt
                 /\ failed_upload' = n.failed_upload
                 /\ custom_text' = n.custom_text
                 /\ last_run' = n.last_run
                 /\ prev_run' = Digest(last_run, n.last_run)
                 /\ uploaded_file' = w.file
                 /\ analysis_type' = w.type

Widgets ==
  [file |-> uploaded_file,
   type |-> analysis_type, text |-> custom_text, button |-> FALSE, failed |-> failed_upload]

\* ------------------------------------------------------------ interactions
\* st.file_uploader, line 59: the user puts a file into the uploader
UploadFile ==
  \E f \in Files : Interact([Widgets EXCEPT !.file = f, !.failed = FALSE], "answering")

\* st.file_uploader, line 59: the user removes the file
ClearFile ==
  /\ uploaded_file # NoFile
  /\ Interact([Widgets EXCEPT !.file = NoFile, !.failed = FALSE], "answering")

\* st.number_input "Chunk Size" / "Overlap", lines 55-56.  The two numbers are
\* read only by DocumentChunking inside the ingestion, which keeps them to
\* itself, so a change of either is a rerun with the other widgets as they are.
ChangeNumberInput ==
  Interact(Widgets, "answering")

\* st.selectbox, lines 161-164 (rendered only when the panel is)
SelectAnalysis ==
  /\ last_run.panel
  /\ \E t \in AnalysisTypes \ {analysis_type} :
       Interact([Widgets EXCEPT !.type = t, !.text = ""], "answering")

\* st.text_area, line 168 (rendered only for "Custom Query")
EnterCustomText ==
  /\ last_run.panel
  /\ analysis_type = "Custom Query"
  /\ \E x \in CustomTexts \ {custom_text} :
       Interact([Widgets EXCEPT !.text = x], "answering")

\* st.button("Analyze"), line 186
PressAnalyze ==
  /\ last_run.panel
  /\ Interact([Widgets EXCEPT !.button = TRUE], "answering")

\* The same interactions of a user who works on one document while the model
\* service is unreliable.
TheFile == [name |-> "A.pdf", content |-> 1]

SvcUploadFile ==
  Interact([Widgets EXCEPT !.file = TheFile, !.failed = FALSE], "unreliable")

SvcClearFile ==
  /\ uploaded_file # NoFile
  /\ Interact([Widgets EXCEPT !.file = NoFile, !.failed = FALSE], "unreliable")

SvcChangeNumberInput ==
  Interact(Widgets, "unreliable")

SvcSelectAnalysis ==
  /\ last_run.panel
  /\ \E t \in AnalysisTypes \ {analysis_type} :
       Interact([Widgets EXCEPT !.type = t, !.text = ""], "unreliable")

SvcEnterCustomText ==
  /\ last_run.panel
  /\ analysis_type = "Custom Query"
  /\ \E x \in CustomTexts \ {custom_text} :
       Interact([Widgets EXCEPT !.text = x], "unreliable")

SvcPressAnalyze ==
  /\ last_run.panel
  /\ Interact([Widgets EXCEPT !.button = TRUE], "unreliable")

\* ------------------------------------------------------------ specification
FreshSession ==
  [knowledge_base |-> None, processed_files |-> {}, law |-> EmptyLaw,
   environ_key |-> FALSE, last_attempt |-> "none"]

FirstWidgets ==
  [file |-> NoFile, type |-> "Contract Review",
   text |-> "", button |-> FALSE, failed |-> FALSE]

\* The session after the page has been opened: the first script run, lines 29-38
\* included, with nothing uploaded.  The "law" collection is persistent and may
\* hold a document stored before this session.
Init ==
  \E secret \in BOOLEAN, old \in {EmptyLaw, StaleLaw} :
    LET n == RunScript([FreshSession EXCEPT !.law = old], FirstWidgets,
                       secret, "none", NoReplies, 0)
    IN /\ api_key = secret
       /\ knowledge_base = n.knowledge_base
       /\ processed_files = n.processed_files
       /\ law = n.law
       /\ environ_key = n.environ_key
       /\ last_attempt = n.last_attempt
       /\ failed_upload = n.failed_upload
       /\ custom_text = n.custom_text
       /\ last_run = n.last_run
       /\ prev_run = NoDigest
       /\ uploaded_file = NoFile
       /\ analysis_type = "Contract Review"

Next ==
  \/ UploadFile
  \/ ClearFile
  \/ ChangeNumberInput
  \/ SelectAnalysis
  \/ EnterCustomText
  \/ PressAnalyze

\* every interaction, with the model service answering
Spec == Init /\ [][Next]_vars

NextService ==
  \/ SvcUploadFile
  \/ SvcClearFile
  \/ SvcChangeNumberInput
  \/ SvcSelectAnalysis
  \/ SvcEnterCustomText
  \/ SvcPressAnalyze

\* one document, with the model service unreliable
SpecService == Init /\ [][NextService]_vars

\* ------------------------------------------------------------ properties
\* the collection once kb's load has completed
Full(kb) == [state |-> "full", doc |-> kb.doc, own |-> TRUE]

\* C1: an ingestion attempt made while the knowledge base is None ends either
\* with the knowledge base loaded and the filename recorded, or with the
\* knowledge base still None, no analysis panel, and an error shown.
C1_LoadedOrNone ==
  (last_run.ingest # "none" /\ last_run.kb_was_none) =>
    \/ /\ last_run.ingest = "ok"
       /\ knowledge_base # None
       /\ law = Full(knowledge_base)
       /\ uploaded_file.name \in processed_files
    \/ /\ knowledge_base = None
       /\ ~last_run.panel
       /\ last_run.ingest_error

\* C2: a failed ingestion attempt leaves the knowledge-base handle, the
\* processed files and the "law" collection as they were, and shows the error.
C2_FailureLeavesStateUntouched ==
  (last_run.ingest \notin {"none", "ok"}) =>
    /\ last_run.kb_same
    /\ last_run.pf_same
    /\ last_run.law_same
    /\ last_run.ingest_error

\* C3: in a run in which the GOOGLE_API_KEY secret is missing the error is
\* shown and no agent invocation is attempted.
C3_NoAgentCallWithoutKey ==
  last_run.key_error => (~api_key /\ last_run.calls = <<>>)

\* C4: a run in which the uploader holds a file whose name is already in
\* processed_files ingests nothing: no temporary file, no new knowledge base,
\* no load, and knowledge_base, processed_files and the collection unchanged.
C4_ProcessedNameNotReingested ==
  [][(uploaded_file'.name \in processed_files) =>
       /\ knowledge_base' = knowledge_base
       /\ processed_files' = processed_files
       /\ law' = law
       /\ last_attempt' = last_attempt
       /\ last_run'.ingest = "none"
       /\ ~last_run'.temp_written
       /\ ~last_run'.kb_created
       /\ ~last_run'.load_called]_vars

\* the uploader holds a file with a processed name but other content than the
\* document that was ingested, and the run left it alone
C4_Witness ==
  /\ last_run.was_processed
  /\ processed_files = {uploaded_file.name}
  /\ law.state = "full"
  /\ uploaded_file.content # law.doc
  /\ last_run.ingest = "none"

\* C5: pressing Analyze invokes agents exactly when the query is non-empty;
\* every predefined type gives a non-empty query and runs the pipeline; an
\* empty custom query gives the warning and no agent invocation.
C5_AnalyzeIffQueryNonEmpty ==
  last_run.pressed =>
    /\ (last_run.calls # <<>>) <=> (last_run.query # "")
    /\ last_run.warning <=> (last_run.query = "")
    /\ analysis_type # "Custom Query" =>
         (last_run.query = predefined_queries[analysis_type] /\ last_run.query # ""
            /\ last_run.calls # <<>>)
    /\ (analysis_type = "Custom Query" /\ custom_text = "") =>
         (last_run.warning /\ last_run.calls = <<>>)

C5_Witness ==
  /\ last_run.pressed
  /\ analysis_type = "Custom Query"
  /\ custom_text = ""
  /\ last_run.warning
  /\ last_run.calls = <<>>

ExpectedAgents ==
  <<"LegalAdvisor", "ContractAnalyst", "LegalStrategist", "teamlead", "teamlead", "teamlead">>

\* C6: an Analyze with a non-empty query in which no call fails makes exactly
\* six agent calls in the order researcher, contract analyst, strategist,
\* team lead (the three worker replies), team lead (key points of the
\* integrated report), team lead (recommendations from the integrated report),
\* and then all three tabs hold non-empty content.
C6_SixCallsInOrder ==
  (last_run.pressed /\ last_run.query # "" /\ ~last_run.crashed) =>
    /\ Len(last_run.calls) = 6
    /\ \A i \in 1..6 : last_run.calls[i].agent = ExpectedAgents[i]
    /\ \A i \in 1..3 :
         /\ last_run.calls[i].prompt = <<last_run.query>>
         /\ last_run.calls[4].prompt[2 * i + 1] = ResponseOf(ExpectedAgents[i])
    /\ Len(last_run.calls[4].prompt) = 7
    /\ last_run.calls[5].prompt[2] = last_run.calls[6].prompt[2]
    /\ last_run.calls[5].prompt[1] # last_run.calls[6].prompt[1]
    /\ Len(last_run.tabs) = 3
    /\ \A i \in 1..3 : last_run.tabs[i] # ""
    /\ last_run.tabs[1] \in {last_run.calls[5].prompt[2], "No response generated."}

\* a complete Analyze in which the team lead's integrated report came back empty
C6_Witness ==
  /\ last_run.pressed
  /\ ~last_run.crashed
  /\ Len(last_run.calls) = 6
  /\ last_run.calls[5].prompt[2] = ""
  /\ last_run.tabs[1] = "No response generated."

\* C7: two Analyze runs in a row with the same predefined query, on a file
\* that was already processed, ingest nothing and leave processed_files and
\* the knowledge-base handle as they were.
C7_RepeatedAnalyzeKeepsState ==
  /\ (last_run.pressed /\ last_run.was_processed /\ analysis_type # "Custom Query") =>
       /\ last_run.ingest = "none"
       /\ last_run.kb_same
       /\ last_run.pf_same
       /\ last_run.law_same
       /\ uploaded_file.name \in processed_files
  /\ (prev_run.analyze /\ prev_run.was_processed /\ last_run.pressed
         /\ analysis_type # "Custom Query") =>
       /\ prev_run.quiet
       /\ last_run.was_processed

C7_Witness ==
  /\ prev_run.analyze
  /\ prev_run.was_processed
  /\ last_run.pressed
  /\ analysis_type # "Custom Query"
  /\ Len(last_run.calls) = 6
  /\ law = Full(knowledge_base)

\* C8: once the ingestion of the file in the uploader has failed, no later run
\* ingests it again until the user uploads a file again.
C8_FailedIngestionNotRetried ==
  last_run.retry => last_run.ingest = "none"

\* C9: the analysis panel is offered, and agents are created and run, only
\* while knowledge_base is not None; and a non-None knowledge_base never
\* becomes None again.
C9_AgentsOnlyWithKnowledgeBase ==
  [][/\ (last_run'.panel \/ last_run'.agents_created \/ last_run'.calls # <<>>)
          => knowledge_base' # None
     /\ knowledge_base' = None => (~last_run'.panel /\ ~last_run'.pressed)
     /\ knowledge_base # None => knowledge_base' # None]_vars

C9_Witness ==
  /\ knowledge_base # None
  /\ last_run.panel
  /\ last_run.calls # <<>>

\* C10 as stated: the active knowledge base is always the one built by the
\* most recent ingestion attempt, each ingestion replacing the handle and
\* recreating the collection.
C10_Original ==
  /\ knowledge_base # None => knowledge_base.latest
  /\ last_run.ingest # "none" => (~last_run.kb_same /\ ~last_run.law_same)

\* C10, amended: the handle is always the one built by the most recent
\* ingestion attempt that got past writing the temporary file; an ingestion
\* that completes leaves the collection holding exactly that handle's
\* document; and selecting a file whose name is already processed ingests
\* nothing, so the handle and the collection stay those of the last ingestion.
C10_LatestBuiltIsActive ==
  /\ (knowledge_base # None /\ ~knowledge_base.latest) => last_attempt = "fail_write"
  /\ last_attempt \notin {"none", "fail_write"} => knowledge_base.latest
  /\ last_attempt = "none" => knowledge_base = None
  /\ last_run.ingest = "ok" =>
       /\ knowledge_base.doc = uploaded_file.content
       /\ law = Full(knowledge_base)
  /\ last_run.ingest \notin {"none", "fail_write"} => ~last_run.kb_same
  /\ last_run.ingest \notin {"none", "fail_write", "fail_drop"} => ~last_run.law_same
  /\ last_run.was_processed =>
       (last_run.ingest = "none" /\ last_run.kb_same /\ last_run.law_same)
  /\ law.own => (knowledge_base # None /\ law.doc = knowledge_base.doc)

\* two files ingested, then a file with an already processed name and other
\* content selected: the second ingestion's knowledge base is still active
C10_Witness ==
  /\ Cardinality(processed_files) = 2
  /\ last_run.was_processed
  /\ last_run.ingest = "none"
  /\ last_attempt = "ok"
  /\ knowledge_base.latest
  /\ law = Full(knowledge_base)
  /\ uploaded_file.content # knowledge_base.doc

====
